---------------------------- MODULE Spec2Model ----------------------------
(***************************************************************************)
(* database/scripts/generate-pgbouncer-passwords.py                        *)
(*                                                                         *)
(* generate_scram_sha256_hash and main, statement by statement.  Bytes     *)
(* objects are sequences of 0..255, str objects are sequences of Unicode   *)
(* code points, and the library calls (hashlib.sha256, hmac.new,           *)
(* hashlib.pbkdf2_hmac, base64.b64encode, str.encode, int formatting) are  *)
(* computed bit for bit.  A 32-bit word is a pair <<hi, lo>> of 16-bit     *)
(* halves, so that no intermediate value leaves the 32-bit integers.       *)
(***************************************************************************)
EXTENDS Integers, Sequences, FiniteSets, TLC

(***************************************************************************)
(* 32-bit word arithmetic used by SHA-256.                                 *)
(***************************************************************************)
RECURSIVE XorBits(_, _, _)
XorBits(a, b, n) ==
   IF n = 0 THEN 0
   ELSE (((a % 2) + (b % 2)) % 2) + 2 * XorBits(a \div 2, b \div 2, n - 1)

RECURSIVE AndBits(_, _, _)
AndBits(a, b, n) ==
   IF n = 0 THEN 0
   ELSE ((a % 2) * (b % 2)) + 2 * AndBits(a \div 2, b \div 2, n - 1)

\* XorByte[a + 1][b + 1] is a xor b, for bytes a and b
XorByte ==
   [a \in 1..256 |-> [b \in 1..256 |-> XorBits(a - 1, b - 1, 8)] \o <<>>]
      \o <<>>

\* AndByte[a + 1][b + 1] is a and b
AndByte ==
   [a \in 1..256 |-> [b \in 1..256 |-> AndBits(a - 1, b - 1, 8)] \o <<>>]
      \o <<>>

Xor16(a, b) ==
   XorByte[(a \div 256) + 1][(b \div 256) + 1] * 256
      + XorByte[(a % 256) + 1][(b % 256) + 1]

And16(a, b) ==
   AndByte[(a \div 256) + 1][(b \div 256) + 1] * 256
      + AndByte[(a % 256) + 1][(b % 256) + 1]

Xor(x, y) == <<Xor16(x[1], y[1]), Xor16(x[2], y[2])>>

And(x, y) == <<And16(x[1], y[1]), And16(x[2], y[2])>>

Not(x) == <<65535 - x[1], 65535 - x[2]>>

Add(x, y) ==
   <<(x[1] + y[1] + ((x[2] + y[2]) \div 65536)) % 65536,
     (x[2] + y[2]) % 65536>>

\* the sum of five words modulo 2^32
Add5(a, b, c, d, e) ==
   <<(a[1] + b[1] + c[1] + d[1] + e[1]
         + ((a[2] + b[2] + c[2] + d[2] + e[2]) \div 65536)) % 65536,
     (a[2] + b[2] + c[2] + d[2] + e[2]) % 65536>>

\* for n < 16, with p = 2^n and q = 2^(16 - n)
RotrHalves(x, p, q) ==
   <<(x[1] \div p) + (x[2] % p) * q, (x[2] \div p) + (x[1] % p) * q>>

RotrSmall(x, n) == RotrHalves(x, 2 ^ n, 2 ^ (16 - n))

Rotr(x, n) ==
   IF n >= 16 THEN RotrSmall(<<x[2], x[1]>>, n - 16) ELSE RotrSmall(x, n)

ShrHalves(x, p, q) == <<x[1] \div p, (x[2] \div p) + (x[1] % p) * q>>

\* for n < 16
Shr(x, n) == ShrHalves(x, 2 ^ n, 2 ^ (16 - n))

(***************************************************************************)
(* hashlib.sha256 (FIPS 180-4).                                            *)
(***************************************************************************)
SHA256_K ==
   << <<17034, 12184>>, <<28983, 17553>>, <<46528, 64463>>, <<59829, 56229>>,
      <<14678, 49755>>, <<23025, 4593>>, <<37439, 33444>>, <<43804, 24277>>,
      <<55303, 43672>>, <<4739, 23297>>, <<9265, 34238>>, <<21772, 32195>>,
      <<29374, 23924>>, <<32990, 45566>>, <<39900, 1703>>, <<49563, 61812>>,
      <<58523, 27073>>, <<61374, 18310>>, <<4033, 40390>>, <<9228, 41420>>,
      <<11753, 11375>>, <<19060, 33962>>, <<23728, 43484>>, <<30457, 35034>>,
      <<38974, 20818>>, <<43057, 50797>>, <<45059, 10184>>, <<48985, 32711>>,
      <<50912, 3059>>, <<54695, 37191>>, <<1738, 25425>>, <<5161, 10599>>,
      <<10167, 2693>>, <<11803, 8504>>, <<19756, 28156>>, <<21304, 3347>>,
      <<25866, 29524>>, <<30314, 2747>>, <<33218, 51502>>, <<37490, 11397>>,
      <<41663, 59553>>, <<43034, 26187>>, <<49739, 35696>>, <<51052, 20899>>,
      <<53650, 59417>>, <<54937, 1572>>, <<62478, 13701>>, <<4202, 41072>>,
      <<6564, 49430>>, <<7735, 27656>>, <<10056, 30540>>, <<13488, 48309>>,
      <<14620, 3251>>, <<20184, 43594>>, <<23452, 51791>>, <<26670, 28659>>,
      <<29839, 33518>>, <<30885, 25455>>, <<33992, 30740>>, <<36039, 520>>,
      <<37054, 65530>>, <<42064, 27883>>, <<48889, 41975>>, <<50801, 30962>> >>

SHA256_H0 ==
   << <<27145, 58983>>, <<47975, 44677>>, <<15470, 62322>>, <<42319, 62778>>,
      <<20750, 21119>>, <<39685, 26764>>, <<8067, 55723>>, <<23520, 52505>> >>

Ch(x, y, z) == Xor(And(x, y), And(Not(x), z))

Maj(x, y, z) == Xor(Xor(And(x, y), And(x, z)), And(y, z))

BigSigma0(x) == Xor(Xor(Rotr(x, 2), Rotr(x, 13)), Rotr(x, 22))

BigSigma1(x) == Xor(Xor(Rotr(x, 6), Rotr(x, 11)), Rotr(x, 25))

SmallSigma0(x) == Xor(Xor(Rotr(x, 7), Rotr(x, 18)), Shr(x, 3))

SmallSigma1(x) == Xor(Xor(Rotr(x, 17), Rotr(x, 19)), Shr(x, 10))

Zeros(n) == [j \in 1..n |-> 0]

\* the message followed by 0x80, zero bytes and its bit length as 8 bytes
BitLength(bits) ==
   <<0, 0, 0, 0, bits \div 16777216, (bits \div 65536) % 256,
     (bits \div 256) % 256, bits % 256>>

Pad(m) ==
   m \o <<128>> \o Zeros((119 - Len(m)) % 64) \o BitLength(8 * Len(m))

\* the 16 big-endian words of the k-th 64-byte block of m
WordAt(m, o) == <<m[o + 1] * 256 + m[o + 2], m[o + 3] * 256 + m[o + 4]>>

BlockWords(m, k) == [j \in 1..16 |-> WordAt(m, 64 * (k - 1) + 4 * (j - 1))]

ScheduleWord(W, t) ==
   Add(Add(SmallSigma1(W[t - 2]), W[t - 7]),
       Add(SmallSigma0(W[t - 15]), W[t - 16]))

\* the message schedule W, of fewer than n words, grown to n words
RECURSIVE Schedule(_, _)
Schedule(W, n) ==
   IF Len(W) >= n - 1 THEN Append(W, ScheduleWord(W, n))
   ELSE Schedule(Schedule(W, (Len(W) + 1 + n) \div 2), n)

\* one round: the working variables a..h after it, from those before it
RoundNext(s, T1, T2) ==
   <<Add(T1, T2), s[1], s[2], s[3], Add(s[4], T1), s[5], s[6], s[7]>>

Round(s, Kt, Wt) ==
   RoundNext(s,
      Add5(s[8], BigSigma1(s[5]), Ch(s[5], s[6], s[7]), Kt, Wt),
      Add(BigSigma0(s[1]), Maj(s[1], s[2], s[3])))

\* S[t + 1] holds the working variables after t rounds; S, which holds them
\* after fewer than n rounds, grown to n rounds
RECURSIVE Rounds(_, _, _)
Rounds(S, W, n) ==
   IF Len(S) >= n THEN Append(S, Round(S[n], SHA256_K[n], W[n]))
   ELSE Rounds(Rounds(S, W, (Len(S) + n) \div 2), W, n)

AddWords(H, s) ==
   <<Add(H[1], s[1]), Add(H[2], s[2]), Add(H[3], s[3]), Add(H[4], s[4]),
     Add(H[5], s[5]), Add(H[6], s[6]), Add(H[7], s[7]), Add(H[8], s[8])>>

\* one round per word of the schedule W
CompressWith(H, W) == AddWords(H, Rounds(<<H>>, W, Len(W))[Len(W) + 1])

Compress(H, m, k) == CompressWith(H, Schedule(BlockWords(m, k), 64))

\* Hs[k + 1] is the hash value after k blocks of m
RECURSIVE Blocks(_, _)
Blocks(Hs, m) ==
   IF 64 * Len(Hs) > Len(m) THEN Hs[Len(Hs)]
   ELSE Blocks(Append(Hs, Compress(Hs[Len(Hs)], m, Len(Hs))), m)

\* byte j (0..3) of the word x, most significant first
WordByte(x, j) ==
   IF j < 2 THEN (IF j = 0 THEN x[1] \div 256 ELSE x[1] % 256)
   ELSE (IF j = 2 THEN x[2] \div 256 ELSE x[2] % 256)

DigestBytes(H) ==
   [k \in 1..(4 * Len(H)) |->
      WordByte(H[((k - 1) \div 4) + 1], (k - 1) % 4)] \o <<>>

sha256(m) == DigestBytes(Blocks(<<SHA256_H0>>, Pad(m)))

(***************************************************************************)
(* hmac.new(key, msg, hashlib.sha256).digest() (RFC 2104, block size 64).   *)
(***************************************************************************)
XorPad(k, pad) == [j \in 1..64 |-> XorByte[k[j] + 1][pad + 1]]

\* a key longer than the block is hashed; the key is zero-filled to the block
BlockKey(key) ==
   IF Len(key) > 64 THEN sha256(key) \o Zeros(32)
   ELSE key \o Zeros(64 - Len(key))

HmacBlockKey(k, msg) ==
   sha256(XorPad(k, 92) \o sha256(XorPad(k, 54) \o msg))

hmac_sha256(key, msg) == HmacBlockKey(BlockKey(key), msg)

(***************************************************************************)
(* hashlib.pbkdf2_hmac('sha256', password, salt, iterations) (RFC 8018),    *)
(* dklen left at the digest size, so the derived key is the one block T_1.  *)
(***************************************************************************)
XorBytes(a, b) ==
   [j \in 1..Len(a) |-> XorByte[a[j] + 1][b[j] + 1]] \o <<>>

\* acc[1] is U_n and acc[2] is U_1 xor ... xor U_n, n = acc[3]
PBKDF2Step(acc, U) == <<U, XorBytes(acc[2], U), acc[3] + 1>>

RECURSIVE PBKDF2Loop(_, _, _)
PBKDF2Loop(P, acc, c) ==
   IF acc[3] = c THEN acc[2]
   ELSE PBKDF2Loop(P, PBKDF2Step(acc, hmac_sha256(P, acc[1])), c)

PBKDF2First(U1) == <<U1, U1, 1>>

\* ValueError: iteration value must be greater than 0
pbkdf2_hmac_raises(P, S, c) == c < 1

pbkdf2_hmac(P, S, c) ==
   PBKDF2Loop(P, PBKDF2First(hmac_sha256(P, S \o <<0, 0, 0, 1>>)), c)

(***************************************************************************)
(* base64.b64encode: standard alphabet, '=' padding.                       *)
(***************************************************************************)
B64Char(v) ==
   IF v < 26 THEN 65 + v
   ELSE IF v < 52 THEN 97 + (v - 26)
   ELSE IF v < 62 THEN 48 + (v - 52)
   ELSE IF v = 62 THEN 43
   ELSE 47

\* byte k of s, and 0 past its end
ByteAt(s, k) == IF k <= Len(s) THEN s[k] ELSE 0

\* character j (0..3) of the group that encodes the bytes g + 1 .. g + 3
B64GroupChar(s, g, j) ==
   IF j = 0 THEN B64Char(s[g + 1] \div 4)
   ELSE IF j = 1 THEN
      B64Char((s[g + 1] % 4) * 16 + (ByteAt(s, g + 2) \div 16))
   ELSE IF j = 2 THEN
      IF g + 2 > Len(s) THEN 61
      ELSE B64Char((s[g + 2] % 16) * 4 + (ByteAt(s, g + 3) \div 64))
   ELSE
      IF g + 3 > Len(s) THEN 61 ELSE B64Char(s[g + 3] % 64)

b64encode(s) ==
   [k \in 1..(4 * ((Len(s) + 2) \div 3)) |->
      B64GroupChar(s, 3 * ((k - 1) \div 4), (k - 1) % 4)] \o <<>>

\* bytes.decode('ascii'): byte k is the code point k; base64 text is ASCII
decode_ascii(b) == [k \in 1..Len(b) |-> b[k] % 128] \o <<>>

(***************************************************************************)
(* str.encode('utf-8'); surrogate code points cannot be encoded.           *)
(***************************************************************************)
EncodeCodePoint(c) ==
   IF c < 128 THEN <<c>>
   ELSE IF c < 2048 THEN <<192 + (c \div 64), 128 + (c % 64)>>
   ELSE IF c < 65536 THEN
      <<224 + (c \div 4096), 128 + ((c \div 64) % 64), 128 + (c % 64)>>
   ELSE <<240 + (c \div 262144), 128 + ((c \div 4096) % 64),
          128 + ((c \div 64) % 64), 128 + (c % 64)>>

\* the encodings of the code points lo..hi of s, one after the other
RECURSIVE EncodeRange(_, _, _)
EncodeRange(s, lo, hi) ==
   IF lo > hi THEN <<>>
   ELSE IF lo = hi THEN EncodeCodePoint(s[lo])
   ELSE EncodeRange(s, lo, (lo + hi) \div 2)
           \o EncodeRange(s, ((lo + hi) \div 2) + 1, hi)

IsSurrogate(c) == c >= 55296 /\ c <= 57343

\* str.encode('ascii'): UnicodeEncodeError outside 0..127
encode_ascii_raises(s) == \E k \in 1..Len(s) : s[k] >= 128

\* UnicodeEncodeError: surrogates not allowed
encode_utf8_raises(s) == \E k \in 1..Len(s) : IsSurrogate(s[k])

encode_utf8(s) == EncodeRange(s, 1, Len(s))

(***************************************************************************)
(* Formatting of an int in an f-string: decimal digits, '-' when negative. *)
(***************************************************************************)
RECURSIVE Digits(_)
Digits(n) ==
   IF n < 10 THEN <<48 + n>> ELSE Append(Digits(n \div 10), 48 + (n % 10))

format_int(n) == IF n < 0 THEN <<45>> \o Digits(0 - n) ELSE Digits(n)

(***************************************************************************)
(* The program's literals and the inputs of the model.                     *)
(***************************************************************************)
\* Python's None, for a str or bytes variable that holds no value
None == <<-1>>

\* b'client key'
CLIENT_KEY_Lower == <<99, 108, 105, 101, 110, 116, 32, 107, 101, 121>>

\* b'Client Key' (line 37)
CLIENT_KEY == <<67, 108, 105, 101, 110, 116, 32, 75, 101, 121>>

\* b'Server Key' (line 43)
SERVER_KEY == <<83, 101, 114, 118, 101, 114, 32, 75, 101, 121>>

\* 'SCRAM-SHA-256$' (line 51)
SCRAM_PREFIX == <<83, 67, 82, 65, 77, 45, 83, 72, 65, 45, 50, 53, 54, 36>>

\* main's users dict, in insertion order: <<username, password>>
users ==
   << \* 'app_readwrite': 'secure_app_password_2024'
      <<<<97, 112, 112, 95, 114, 101, 97, 100, 119, 114, 105, 116, 101>>,
        <<115, 101, 99, 117, 114, 101, 95, 97, 112, 112, 95, 112, 97, 115,
        115, 119, 111, 114, 100, 95, 50, 48, 50, 52>>>>,
      \* 'app_readonly': 'secure_readonly_password_2024'
      <<<<97, 112, 112, 95, 114, 101, 97, 100, 111, 110, 108, 121>>,
        <<115, 101, 99, 117, 114, 101, 95, 114, 101, 97, 100, 111, 110, 108,
        121, 95, 112, 97, 115, 115, 119, 111, 114, 100, 95, 50, 48, 50, 52>>>>,
      \* 'pgbouncer_admin': 'secure_pgbouncer_admin_2024'
      <<<<112, 103, 98, 111, 117, 110, 99, 101, 114, 95, 97, 100, 109, 105,
        110>>,
        <<115, 101, 99, 117, 114, 101, 95, 112, 103, 98, 111, 117, 110, 99,
        101, 114, 95, 97, 100, 109, 105, 110, 95, 50, 48, 50, 52>>>>,
      \* 'pgbouncer_monitor': 'secure_pgbouncer_monitor_2024'
      <<<<112, 103, 98, 111, 117, 110, 99, 101, 114, 95, 109, 111, 110, 105,
        116, 111, 114>>,
        <<115, 101, 99, 117, 114, 101, 95, 112, 103, 98, 111, 117, 110, 99,
        101, 114, 95, 109, 111, 110, 105, 116, 111, 114, 95, 50, 48, 50,
        52>>>> >>

\* the lines printed before the loop
HeaderLines ==
   << \* '# PgBouncer User Authentication File'
      <<35, 32, 80, 103, 66, 111, 117, 110, 99, 101, 114, 32, 85, 115, 101,
      114, 32, 65, 117, 116, 104, 101, 110, 116, 105, 99, 97, 116, 105, 111,
      110, 32, 70, 105, 108, 101>>,
      \* '# Generated SCRAM-SHA-256 hashes for secure authentication'
      <<35, 32, 71, 101, 110, 101, 114, 97, 116, 101, 100, 32, 83, 67, 82,
      65, 77, 45, 83, 72, 65, 45, 50, 53, 54, 32, 104, 97, 115, 104, 101,
      115, 32, 102, 111, 114, 32, 115, 101, 99, 117, 114, 101, 32, 97, 117,
      116, 104, 101, 110, 116, 105, 99, 97, 116, 105, 111, 110>>,
      \* '# Format: "username" "SCRAM-SHA-256$iterations:salt$storedkey:serverkey"'
      <<35, 32, 70, 111, 114, 109, 97, 116, 58, 32, 34, 117, 115, 101, 114,
      110, 97, 109, 101, 34, 32, 34, 83, 67, 82, 65, 77, 45, 83, 72, 65, 45,
      50, 53, 54, 36, 105, 116, 101, 114, 97, 116, 105, 111, 110, 115, 58,
      115, 97, 108, 116, 36, 115, 116, 111, 114, 101, 100, 107, 101, 121,
      58, 115, 101, 114, 118, 101, 114, 107, 101, 121, 34>>,
      \* ''
      <<>> >>

\* the lines printed after the loop
FooterLines ==
   << \* ''
      <<>>,
      \* '# SECURITY NOTES:'
      <<35, 32, 83, 69, 67, 85, 82, 73, 84, 89, 32, 78, 79, 84, 69, 83, 58>>,
      \* '# 1. Store this file with 600 permissions (readable only by owner)'
      <<35, 32, 49, 46, 32, 83, 116, 111, 114, 101, 32, 116, 104, 105, 115,
      32, 102, 105, 108, 101, 32, 119, 105, 116, 104, 32, 54, 48, 48, 32,
      112, 101, 114, 109, 105, 115, 115, 105, 111, 110, 115, 32, 40, 114,
      101, 97, 100, 97, 98, 108, 101, 32, 111, 110, 108, 121, 32, 98, 121,
      32, 111, 119, 110, 101, 114, 41>>,
      \* '# 2. Keep passwords secure and rotate regularly'
      <<35, 32, 50, 46, 32, 75, 101, 101, 112, 32, 112, 97, 115, 115, 119,
      111, 114, 100, 115, 32, 115, 101, 99, 117, 114, 101, 32, 97, 110, 100,
      32, 114, 111, 116, 97, 116, 101, 32, 114, 101, 103, 117, 108, 97, 114,
      108, 121>>,
      \* '# 3. Use environment variables for passwords in production'
      <<35, 32, 51, 46, 32, 85, 115, 101, 32, 101, 110, 118, 105, 114, 111,
      110, 109, 101, 110, 116, 32, 118, 97, 114, 105, 97, 98, 108, 101, 115,
      32, 102, 111, 114, 32, 112, 97, 115, 115, 119, 111, 114, 100, 115, 32,
      105, 110, 32, 112, 114, 111, 100, 117, 99, 116, 105, 111, 110>>,
      \* '# 4. Monitor authentication logs for security events'
      <<35, 32, 52, 46, 32, 77, 111, 110, 105, 116, 111, 114, 32, 97, 117,
      116, 104, 101, 110, 116, 105, 99, 97, 116, 105, 111, 110, 32, 108,
      111, 103, 115, 32, 102, 111, 114, 32, 115, 101, 99, 117, 114, 105,
      116, 121, 32, 101, 118, 101, 110, 116, 115>> >>

\* The largest iteration count of the model.
MaxIterations == 2

\* The default of the iterations parameter, with which main derives every
\* hash.  It is 4096 in the source (line 15); an iteration of PBKDF2 costs
\* the model four SHA-256 compressions, and main's calls run the same loop
\* here with the largest count of the model.
DefaultIterations == MaxIterations

\* Passwords of the direct calls: '', 'S', U+00E9 (two bytes in UTF-8) and
\* a lone surrogate U+D800, which str.encode refuses.
Passwords == {<<>>, <<83>>, <<233>>, <<55296>>}

\* Iteration counts of the direct calls; pbkdf2_hmac refuses 0.
IterationCounts == 0..MaxIterations

\* The bytes the model lets the random source repeat: 0x00 and 0xA5.
EntropyBytes == {0, 165}

\* secrets.token_bytes(n): every outcome the model lets the source produce
token_bytes(n) == {[k \in 1..n |-> v] : v \in EntropyBytes}

\* Salts a caller supplies: 16 zero bytes.
SuppliedSalts == {[k \in 1..16 |-> 0]}

(***************************************************************************)
(* State.  caller is the code that runs the module: kind "script" is       *)
(* `python3 generate-pgbouncer-passwords.py` (main), kind "import" a       *)
(* caller that derives the hash of one credential, any number of times.    *)
(* password .. server_key_b64 are the parameters and locals of the         *)
(* activation of generate_scram_sha256_hash that runs or ran last; result  *)
(* is its return value and exc the exception that left it.  salt_arg is    *)
(* the salt argument as passed, entropy the values the activation took     *)
(* from secrets.token_bytes, prev the record of the activation before.     *)
(* i, hash_value and stdout are main's loop index, local and output lines. *)
(***************************************************************************)
VARIABLES caller, pc, password, salt, iterations, password_bytes,
          salted_password, client_key, stored_key, server_key, salt_b64,
          stored_key_b64, server_key_b64, result, exc, salt_arg, entropy,
          prev, i, hash_value, stdout

locals == <<password, salt, iterations, password_bytes, salted_password,
            client_key, stored_key, server_key, salt_b64, stored_key_b64,
            server_key_b64>>

mainvars == <<i, hash_value, stdout>>

vars == <<caller, pc, locals, result, exc, salt_arg, entropy, prev, mainvars>>

Callers ==
   {[kind |-> "script", password |-> None, iterations |-> DefaultIterations]}
      \cup {[kind |-> "import", password |-> p, iterations |-> n] :
               p \in Passwords, n \in IterationCounts}

Init ==
   /\ caller \in Callers
   /\ pc = "top"
   /\ password = None /\ salt = None /\ iterations = 0
   /\ password_bytes = None /\ salted_password = None
   /\ client_key = None /\ stored_key = None /\ server_key = None
   /\ salt_b64 = None /\ stored_key_b64 = None /\ server_key_b64 = None
   /\ result = None /\ exc = "" /\ salt_arg = None /\ entropy = <<>>
   /\ prev = <<>>
   /\ i = 1 /\ hash_value = None /\ stdout = <<>>

\* the activation that ran last, as the next one's prev
LastCall ==
   [password |-> password, salt_arg |-> salt_arg, iterations |-> iterations,
    salt |-> salt, result |-> result, exc |-> exc, entropy |-> entropy]

\* where a return or an exception of the function takes control
ReturnSite == IF caller.kind = "script" THEN "L72" ELSE "top"

RaiseSite == IF caller.kind = "script" THEN "aborted" ELSE "top"

\* line 15: a new activation with the arguments bound to the parameters
Enter(p, s, n) ==
   /\ prev' = IF result # None \/ exc # "" THEN <<LastCall>> ELSE prev
   /\ password' = p /\ salt' = s /\ iterations' = n
   /\ salt_arg' = s /\ entropy' = <<>>
   /\ password_bytes' = None /\ salted_password' = None
   /\ client_key' = None /\ stored_key' = None /\ server_key' = None
   /\ salt_b64' = None /\ stored_key_b64' = None /\ server_key_b64' = None
   /\ result' = None /\ exc' = ""
   /\ pc' = "L27"

\* an exception leaves the activation
Raise(e) ==
   /\ exc' = e
   /\ pc' = RaiseSite

(***************************************************************************)
(* generate_scram_sha256_hash, lines 27-51.                                *)
(***************************************************************************)
\* a direct call generate_scram_sha256_hash(password, salt, iterations)
Call(s) ==
   /\ pc = "top"
   /\ caller.kind = "import"
   /\ Enter(caller.password, s, caller.iterations)
   /\ UNCHANGED <<caller, mainvars>>

\* lines 27-28 with token_bytes(8)
DrawSalt_Short ==
   /\ pc = "L27"
   /\ salt = None
   /\ \E b \in token_bytes(8) :
         /\ salt' = b
         /\ entropy' = Append(entropy, b)
   /\ pc' = "L31"
   /\ UNCHANGED <<caller, password, iterations, password_bytes,
                  salted_password, client_key, stored_key, server_key,
                  salt_b64, stored_key_b64, server_key_b64, result, exc,
                  salt_arg, prev, mainvars>>

\* lines 27-28: if salt is None: salt = secrets.token_bytes(16)
DrawSalt ==
   /\ pc = "L27"
   /\ salt = None
   /\ \E b \in token_bytes(16) :
         /\ salt' = b
         /\ entropy' = Append(entropy, b)
   /\ pc' = "L31"
   /\ UNCHANGED <<caller, password, iterations, password_bytes,
                  salted_password, client_key, stored_key, server_key,
                  salt_b64, stored_key_b64, server_key_b64, result, exc,
                  salt_arg, prev, mainvars>>

\* line 27 as `if True`: a supplied salt is replaced by a fresh one
KeepSalt_Redraw ==
   /\ pc = "L27"
   /\ salt # None
   /\ \E b \in token_bytes(16) :
         /\ salt' = b
         /\ entropy' = Append(entropy, b)
   /\ pc' = "L31"
   /\ UNCHANGED <<caller, password, iterations, password_bytes,
                  salted_password, client_key, stored_key, server_key,
                  salt_b64, stored_key_b64, server_key_b64, result, exc,
                  salt_arg, prev, mainvars>>

\* line 27 with a salt supplied
KeepSalt ==
   /\ pc = "L27"
   /\ salt # None
   /\ pc' = "L31"
   /\ UNCHANGED <<caller, locals, result, exc, salt_arg, entropy, prev,
                  mainvars>>

\* line 31: password_bytes = password.encode('utf-8')
EncodePassword ==
   /\ pc = "L31"
   /\ IF encode_utf8_raises(password)
         THEN Raise("UnicodeEncodeError") /\ UNCHANGED password_bytes
         ELSE /\ password_bytes' = encode_utf8(password)
              /\ pc' = "L34"
              /\ UNCHANGED exc
   /\ UNCHANGED <<caller, password, salt, iterations, salted_password,
                  client_key, stored_key, server_key, salt_b64,
                  stored_key_b64, server_key_b64, result, salt_arg, entropy,
                  prev, mainvars>>

\* line 34: salted_password = hashlib.pbkdf2_hmac('sha256', ...)
SaltedPassword(pw, s, n) == pbkdf2_hmac(pw, s, n)

Stretch ==
   /\ pc = "L34"
   /\ IF pbkdf2_hmac_raises(password_bytes, salt, iterations)
         THEN Raise("ValueError") /\ UNCHANGED salted_password
         ELSE /\ salted_password'
                    = SaltedPassword(password_bytes, salt, iterations)
              /\ pc' = "L37"
              /\ UNCHANGED exc
   /\ UNCHANGED <<caller, password, salt, iterations, password_bytes,
                  client_key, stored_key, server_key, salt_b64,
                  stored_key_b64, server_key_b64, result, salt_arg, entropy,
                  prev, mainvars>>

\* line 37: client_key = hmac.new(salted_password, b'Client Key', sha256)
ClientKey(sp) == hmac_sha256(sp, CLIENT_KEY)

DeriveClientKey ==
   /\ pc = "L37"
   /\ client_key' = ClientKey(salted_password)
   /\ pc' = "L40"
   /\ UNCHANGED <<caller, password, salt, iterations, password_bytes,
                  salted_password, stored_key, server_key, salt_b64,
                  stored_key_b64, server_key_b64, result, exc, salt_arg,
                  entropy, prev, mainvars>>

\* line 40 with an HMAC in place of the plain digest
StoredKey_Keyed(ck) == hmac_sha256(ck, <<>>)

\* line 40: stored_key = hashlib.sha256(client_key).digest()
StoredKey(ck) == sha256(ck)

DeriveStoredKey ==
   /\ pc = "L40"
   /\ stored_key' = StoredKey(client_key)
   /\ pc' = "L43"
   /\ UNCHANGED <<caller, password, salt, iterations, password_bytes,
                  salted_password, client_key, server_key, salt_b64,
                  stored_key_b64, server_key_b64, result, exc, salt_arg,
                  entropy, prev, mainvars>>

\* line 43: server_key = hmac.new(salted_password, b'Server Key', sha256)
ServerKey(sp) == hmac_sha256(sp, SERVER_KEY)

DeriveServerKey ==
   /\ pc = "L43"
   /\ server_key' = ServerKey(salted_password)
   /\ pc' = "L46"
   /\ UNCHANGED <<caller, password, salt, iterations, password_bytes,
                  salted_password, client_key, stored_key, salt_b64,
                  stored_key_b64, server_key_b64, result, exc, salt_arg,
                  entropy, prev, mainvars>>

\* lines 46-48: base64.b64encode(x).decode('ascii')
Encode(x) == decode_ascii(b64encode(x))

\* line 47 encoding client_key in place of stored_key
EncodeComponents_ClientKey ==
   /\ pc = "L46"
   /\ salt_b64' = Encode(salt)
   /\ stored_key_b64' = Encode(client_key)
   /\ server_key_b64' = Encode(server_key)
   /\ pc' = "L51"
   /\ UNCHANGED <<caller, password, salt, iterations, password_bytes,
                  salted_password, client_key, stored_key, server_key,
                  result, exc, salt_arg, entropy, prev, mainvars>>

EncodeComponents ==
   /\ pc = "L46"
   /\ salt_b64' = Encode(salt)
   /\ stored_key_b64' = Encode(stored_key)
   /\ server_key_b64' = Encode(server_key)
   /\ pc' = "L51"
   /\ UNCHANGED <<caller, password, salt, iterations, password_bytes,
                  salted_password, client_key, stored_key, server_key,
                  result, exc, salt_arg, entropy, prev, mainvars>>

\* line 51 with the delimiters ':' and '$' exchanged
Format_Swapped(n, s64, stored64, server64) ==
   SCRAM_PREFIX \o format_int(n) \o <<36>> \o s64 \o <<58>> \o stored64
      \o <<36>> \o server64

\* line 51: the f-string
Format(n, s64, stored64, server64) ==
   SCRAM_PREFIX \o format_int(n) \o <<58>> \o s64 \o <<36>> \o stored64
      \o <<58>> \o server64

\* line 51 preceded by a print of the value
Return_Printing ==
   /\ pc = "L51"
   /\ result' = Format(iterations, salt_b64, stored_key_b64, server_key_b64)
   /\ hash_value' = IF caller.kind = "script" THEN result' ELSE hash_value
   /\ stdout' = Append(stdout, result')
   /\ pc' = ReturnSite
   /\ UNCHANGED <<caller, locals, exc, salt_arg, entropy, prev, i>>

\* line 51: return; in main the value is bound to hash_value (line 71)
Return ==
   /\ pc = "L51"
   /\ result' = Format(iterations, salt_b64, stored_key_b64, server_key_b64)
   /\ hash_value' = IF caller.kind = "script" THEN result' ELSE hash_value
   /\ pc' = ReturnSite
   /\ UNCHANGED <<caller, locals, exc, salt_arg, entropy, prev, i, stdout>>

(***************************************************************************)
(* main, lines 57-79.                                                      *)
(***************************************************************************)
\* lines 64-67: the header
PrintHeader ==
   /\ pc = "top"
   /\ caller.kind = "script"
   /\ stdout' = stdout \o HeaderLines
   /\ pc' = "L69"
   /\ UNCHANGED <<caller, locals, result, exc, salt_arg, entropy, prev, i,
                  hash_value>>

\* lines 69-71 with one salt, made before the loop, passed to every call
HashUser_SharedSalt ==
   /\ pc = "L69"
   /\ i <= Len(users)
   /\ Enter(users[i][2], [k \in 1..16 |-> 165], DefaultIterations)
   /\ UNCHANGED <<caller, mainvars>>

\* lines 69-71: the next user's generate_scram_sha256_hash(password)
HashUser ==
   /\ pc = "L69"
   /\ i <= Len(users)
   /\ Enter(users[i][2], None, DefaultIterations)
   /\ UNCHANGED <<caller, mainvars>>

\* line 72 without the quotes around the hash
CredentialLine_Unquoted(username, h) ==
   <<34>> \o username \o <<34, 32>> \o h

\* line 72: print(f'"{username}" "{hash_value}"')
CredentialLine(username, h) ==
   <<34>> \o username \o <<34, 32, 34>> \o h \o <<34>>

PrintUser ==
   /\ pc = "L72"
   /\ stdout' = Append(stdout, CredentialLine(users[i][1], hash_value))
   /\ i' = i + 1
   /\ pc' = "L69"
   /\ UNCHANGED <<caller, locals, result, exc, salt_arg, entropy, prev,
                  hash_value>>

\* lines 74-79: the footer, after the last user
PrintFooter ==
   /\ pc = "L69"
   /\ i > Len(users)
   /\ stdout' = stdout \o FooterLines
   /\ pc' = "exit"
   /\ UNCHANGED <<caller, locals, result, exc, salt_arg, entropy, prev, i,
                  hash_value>>

Next ==
   \/ \E s \in SuppliedSalts \cup {None} : Call(s)
   \/ DrawSalt
   \/ KeepSalt
   \/ EncodePassword
   \/ Stretch
   \/ DeriveClientKey
   \/ DeriveStoredKey
   \/ DeriveServerKey
   \/ EncodeComponents
   \/ Return
   \/ PrintHeader
   \/ HashUser
   \/ PrintUser
   \/ PrintFooter

Spec == Init /\ [][Next]_vars

(***************************************************************************)
(* Reading a returned string back: its fields, and base64 decoding.         *)
(***************************************************************************)
Positions(s, c) == {k \in 1..Len(s) : s[k] = c}

First(S) == CHOOSE x \in S : \A y \in S : x <= y

Last(S) == CHOOSE x \in S : \A y \in S : y <= x

\* the text between the first '$' and the first ':'
IterationField(r) == SubSeq(r, First(Positions(r, 36)) + 1, First(Positions(r, 58)) - 1)

\* between the first ':' and the last '$'
SaltField(r) == SubSeq(r, First(Positions(r, 58)) + 1, Last(Positions(r, 36)) - 1)

\* between the last '$' and the last ':'
StoredKeyField(r) == SubSeq(r, Last(Positions(r, 36)) + 1, Last(Positions(r, 58)) - 1)

\* after the last ':'
ServerKeyField(r) == SubSeq(r, Last(Positions(r, 58)) + 1, Len(r))

\* A-Z a-z 0-9 + /
B64Alphabet == (65..90) \cup (97..122) \cup (48..57) \cup {43, 47}

B64Value(c) ==
   IF c >= 65 /\ c <= 90 THEN c - 65
   ELSE IF c >= 97 /\ c <= 122 THEN c - 71
   ELSE IF c >= 48 /\ c <= 57 THEN c + 4
   ELSE IF c = 43 THEN 62
   ELSE 63

\* the number of '=' that end t
Padding(t) ==
   IF Len(t) > 0 /\ t[Len(t)] = 61
      THEN (IF Len(t) > 1 /\ t[Len(t) - 1] = 61 THEN 2 ELSE 1)
      ELSE 0

\* byte j (0..2) of the group of four characters after position g
B64GroupByte(t, g, j) ==
   IF j = 0 THEN B64Value(t[g + 1]) * 4 + (B64Value(t[g + 2]) \div 16)
   ELSE IF j = 1 THEN
      (B64Value(t[g + 2]) % 16) * 16 + (B64Value(t[g + 3]) \div 4)
   ELSE (B64Value(t[g + 3]) % 4) * 64 + B64Value(t[g + 4])

b64decode(t) ==
   [k \in 1..(3 * (Len(t) \div 4) - Padding(t)) |->
      B64GroupByte(t, 4 * ((k - 1) \div 3), (k - 1) % 3)] \o <<>>

\* base64 text: groups of four over the alphabet, '=' only as the last one
\* or two characters
IsBase64(t) ==
   /\ Len(t) % 4 = 0
   /\ \A k \in 1..Len(t) :
         \/ t[k] \in B64Alphabet
         \/ t[k] = 61 /\ k >= Len(t) - 1 /\ (k = Len(t) - 1 => t[Len(t)] = 61)

\* a occurs in b as a run of consecutive elements
Occurs(a, b) == \E k \in 0..(Len(b) - Len(a)) : SubSeq(b, k + 1, k + Len(a)) = a

\* the activation has returned and control is back at the call site
Returned == result # None /\ pc \in {"top", "L72"}

(***************************************************************************)
(* C1.  The returned string is 'SCRAM-SHA-256$' + decimal(iterations) +     *)
(* ':' + b64(salt) + '$' + b64(storedKey) + ':' + b64(serverKey), where     *)
(* saltedPassword = PBKDF2-HMAC-SHA-256(UTF-8(password), salt, iterations), *)
(* storedKey = SHA-256(HMAC-SHA-256(saltedPassword, 'Client Key')) and      *)
(* serverKey = HMAC-SHA-256(saltedPassword, 'Server Key').                  *)
(***************************************************************************)
ScramRecord(n, s, sp) ==
   <<83, 67, 82, 65, 77, 45, 83, 72, 65, 45, 50, 53, 54, 36>>
      \o format_int(n) \o <<58>> \o b64encode(s) \o <<36>>
      \o b64encode(sha256(hmac_sha256(sp,
            <<67, 108, 105, 101, 110, 116, 32, 75, 101, 121>>)))
      \o <<58>>
      \o b64encode(hmac_sha256(sp,
            <<83, 101, 114, 118, 101, 114, 32, 75, 101, 121>>))

C1_HashIsScramRecord ==
   Returned =>
      /\ salted_password
            = pbkdf2_hmac(encode_utf8(password), salt, iterations)
      /\ result = ScramRecord(iterations, salt, salted_password)

C1_Witness ==
   /\ Returned
   /\ password = <<233>>
   /\ iterations = 2
   /\ salt_arg = None

(***************************************************************************)
(* C2.  Two calls with the same password, the same explicitly supplied     *)
(* salt and the same iteration count return the same string, whatever the  *)
(* calls before them did and whatever the random source returned.          *)
(***************************************************************************)
C2_Deterministic ==
   (/\ Returned
    /\ prev # <<>>
    /\ salt_arg # None)
   => \A c \in {prev[1]} :
         (/\ c.result # None
          /\ c.password = password
          /\ c.salt_arg = salt_arg
          /\ c.iterations = iterations)
         => c.result = result

C2_Witness ==
   /\ Returned
   /\ prev # <<>>
   /\ salt_arg # None
   /\ prev[1].salt_arg = salt_arg
   /\ prev[1].result = result
   /\ password = <<83>>

(***************************************************************************)
(* C3.  Every returned string has the shape                                *)
(* SCRAM-SHA-256$<digits>:<base64>$<base64>:<base64>: the literal first,    *)
(* exactly two '$' and two ':' in the order $ : $ :, a non-empty run of    *)
(* decimal digits as the iteration field, three fields of standard base64  *)
(* with '=' padding, and no whitespace.                                    *)
(***************************************************************************)
Whitespace == {9, 10, 11, 12, 13, 32}

IsScramShape(r) ==
   /\ Cardinality(Positions(r, 36)) = 2
   /\ Cardinality(Positions(r, 58)) = 2
   /\ First(Positions(r, 36)) < First(Positions(r, 58))
   /\ First(Positions(r, 58)) < Last(Positions(r, 36))
   /\ Last(Positions(r, 36)) < Last(Positions(r, 58))
   /\ SubSeq(r, 1, First(Positions(r, 36)) - 1)
         = <<83, 67, 82, 65, 77, 45, 83, 72, 65, 45, 50, 53, 54>>
   /\ Len(IterationField(r)) > 0
   /\ \A k \in 1..Len(IterationField(r)) : IterationField(r)[k] \in 48..57
   /\ IsBase64(SaltField(r))
   /\ IsBase64(StoredKeyField(r))
   /\ IsBase64(ServerKeyField(r))
   /\ \A k \in 1..Len(r) : r[k] \notin Whitespace

C3_FormatConforms == Returned => IsScramShape(result)

C3_Witness ==
   /\ Returned
   /\ iterations = 2
   /\ \E k \in 1..Len(result) : result[k] = 61

IsCredentialLine(line, username) ==
   /\ Len(line) > Len(username) + 5
   /\ SubSeq(line, 1, Len(username) + 4)
         = <<34>> \o username \o <<34, 32, 34>>
   /\ line[Len(line)] = 34
   /\ IsScramShape(SubSeq(line, Len(username) + 5, Len(line) - 1))
   /\ Cardinality(Positions(line, 34)) = 4

C5_OneLinePerUser ==
   (caller.kind = "script" /\ pc # "top") =>
      /\ Len(users) = 4
      /\ SubSeq(stdout, 1, 4) = HeaderLines
      /\ \A k \in 1..(i - 1) :
            IsCredentialLine(stdout[Len(HeaderLines) + k], users[k][1])
      /\ pc = "L72" => password = users[i][2] /\ hash_value = result
      /\ (pc = "L69" /\ i > 1) =>
            /\ password = users[i - 1][2]
            /\ stdout[Len(stdout)]
                  = <<34>> \o users[i - 1][1] \o <<34, 32, 34>> \o result
                       \o <<34>>
      /\ pc # "exit" => Len(stdout) = Len(HeaderLines) + (i - 1)
      /\ pc = "exit" =>
            /\ i = Len(users) + 1
            /\ Len(stdout) = Len(HeaderLines) + Len(users) + Len(FooterLines)
            /\ SubSeq(stdout, Len(HeaderLines) + Len(users) + 1, Len(stdout))
                  = FooterLines

C5_Witness ==
   /\ pc = "exit"
   /\ Len(stdout) = 14
   /\ IsCredentialLine(stdout[8], users[4][1])

(***************************************************************************)
(* C6.  The client key is in the returned string neither raw nor           *)
(* base64-encoded, and neither is the salted password: the key fields of   *)
(* the string are the stored key, the SHA-256 digest of the client key,    *)
(* and the server key.                                                     *)
(***************************************************************************)
C6_ClientKeyNotInOutput ==
   Returned =>
      /\ ~Occurs(client_key, result)
      /\ ~Occurs(b64encode(client_key), result)
      /\ ~Occurs(salted_password, result)
      /\ ~Occurs(b64encode(salted_password), result)
      /\ b64decode(StoredKeyField(result)) = sha256(client_key)
      /\ b64decode(StoredKeyField(result)) # client_key
      /\ b64decode(ServerKeyField(result)) = server_key
      /\ b64decode(ServerKeyField(result)) # client_key

C6_Witness ==
   /\ Returned
   /\ password = <<83>>
   /\ Len(client_key) = 32
   /\ ~Occurs(b64encode(client_key), result)

\* C6 as stated: the plaintext password is absent from the string as well
C6_PasswordAbsent ==
   (Returned /\ password # <<>>) =>
      /\ ~Occurs(client_key, result)
      /\ ~Occurs(b64encode(client_key), result)
      /\ ~Occurs(salted_password, result)
      /\ ~Occurs(password, result)

(***************************************************************************)
(* C7.  A call with well-formed arguments (a password of encodable text,   *)
(* the empty one included, a 16-byte salt or none, an iteration count of   *)
(* at least 1) raises nothing and returns a non-empty string of the record *)
(* shape.                                                                  *)
(***************************************************************************)
WellFormedArguments ==
   /\ password # None
   /\ \A k \in 1..Len(password) : password[k] < 55296 \/ password[k] > 57343
   /\ salt_arg = None \/ Len(salt_arg) = 16
   /\ iterations >= 1

LineSalt(k) ==
   b64decode(SaltField(SubSeq(stdout[Len(HeaderLines) + k],
                               Len(users[k][1]) + 5,
                               Len(stdout[Len(HeaderLines) + k]) - 1)))

InFunction == pc \in {"L27", "L31", "L34", "L37", "L40", "L43", "L46", "L51"}

C9_EntropyOnlyWhenOmitted ==
   /\ (InFunction /\ pc # "L27") \/ Returned =>
         Len(entropy) = IF salt_arg = None THEN 1 ELSE 0
   /\ (salt_arg # None) => salt = salt_arg
   /\ (Returned /\ salt_arg # None) =>
         /\ b64decode(SaltField(result)) = salt_arg
         /\ salted_password = pbkdf2_hmac(password_bytes, salt_arg, iterations)

C9_FrameOfTheCall ==
   InFunction =>
      /\ stdout' = stdout
      /\ i' = i
      /\ caller' = caller
      /\ prev' = prev
      /\ password' = password
      /\ iterations' = iterations
      /\ salt_arg' = salt_arg
      /\ Len(entropy') = Len(entropy) + (IF pc = "L27" /\ salt = None THEN 1 ELSE 0)
      /\ hash_value' # hash_value => pc = "L51"

C9_OnlyEffectIsEntropy ==
   [](C9_EntropyOnlyWhenOmitted) /\ [][C9_FrameOfTheCall]_vars

C9_Witness ==
   /\ Returned
   /\ salt_arg # None
   /\ entropy = <<>>
   /\ prev # <<>>
   /\ prev[1].entropy # <<>>

(***************************************************************************)
(* C10.  The HMAC messages are the case-sensitive ASCII strings            *)
(* 'Client Key', for the client key, and 'Server Key', for the server key; *)
(* each is 10 bytes long.                                                  *)
(***************************************************************************)
C10_Messages ==
   /\ pc = "L40" =>
         client_key = hmac_sha256(salted_password,
                         <<67, 108, 105, 101, 110, 116, 32, 75, 101, 121>>)
   /\ pc = "L46" =>
         server_key = hmac_sha256(salted_password,
                         <<83, 101, 114, 118, 101, 114, 32, 75, 101, 121>>)
   /\ Len(CLIENT_KEY) = 10 /\ \A k \in 1..10 : CLIENT_KEY[k] < 128
   /\ Len(SERVER_KEY) = 10 /\ \A k \in 1..10 : SERVER_KEY[k] < 128

C10_Witness ==
   /\ pc = "L46"
   /\ Len(client_key) = 32
   /\ Len(server_key) = 32
   /\ client_key # server_key

\* C10 as stated: each message is 8 bytes long
C10_EightBytes ==
   pc = "L40" =>
      /\ client_key = hmac_sha256(salted_password, CLIENT_KEY)
      /\ Len(CLIENT_KEY) = 8
      /\ Len(SERVER_KEY) = 8

=============================================================================
